---- MODULE Spec2Model ----
(***************************************************************************)
(* Model of the health monitor of python-aws-monitor.  The repository      *)
(* ships the monitor twice: the package module                             *)
(* src/src/python_health_monitor/monitor.py (variant "pkg": load_config,   *)
(* setup_logging, check_url, main) and the stand-alone script              *)
(* src/monitor.py (variant "root": load_config, setup_logging,             *)
(* check_endpoint, run_health_checks, main).  One run of either program    *)
(* is a behaviour of Spec; the variant is fixed in the initial state.      *)
(*                                                                         *)
(* The program is sequential.  Its steps are cut at its blocking calls:    *)
(* loading the configuration, setting up logging, reading the settings,    *)
(* entering the next loop iteration, one requests.get, one time.sleep,     *)
(* the summary.  A KeyboardInterrupt may arrive at any blocking call of    *)
(* the run.                                                                *)
(*                                                                         *)
(* Python dicts are TLA+ functions whose domain is the set of keys that    *)
(* are present; dict.get is Get.  Formatted messages are records of their  *)
(* parts (prefix, text, number, suffix), so that two messages are equal    *)
(* exactly when the formatted strings are.                                 *)
(***************************************************************************)
EXTENDS Integers, Sequences, FiniteSets, TLC

\* ------------------------------------------------------------------ bounds
\* Largest retries value a configuration file gives.
MaxRetries == 3
\* Longest endpoint list a configuration file gives.
MaxEndpoints == 2

\* --------------------------------------------------------- program constants
DefaultTimeout == 5
DefaultRetries == 3
DefaultDelay == 2
DefaultExpectedStatus == 200
\* Exit status of the interpreter when main returns 0 / None.
ExitOk == 0
\* Exit status of exit(1), of "return 1", and of an uncaught exception.
ExitError == 1
\* Exit status of the interpreter ended by an uncaught KeyboardInterrupt.
ExitInterrupted == 130
\* exitCode while the process is still running: no exit status.
Running == 0 - 1

Variants == {"pkg", "root"}

\* ------------------------------------------------------------------- dicts
EmptyDict == <<>>

IsEmpty(d) == DOMAIN d = {}

\* dict.get(k, default)
Get(d, k, default) == IF k \in DOMAIN d THEN d[k] ELSE default

\* Python's None, where a url or a name is read from a dict that lacks it.
None == "None"

\* ------------------------------------------------------------ environment
\* What requests.get can do: complete with a status code, or raise.
Statuses == {200, 404}

Faults == {"Timeout", "ConnectionError", "RequestException", "Exception"}

Response(code) == [kind |-> "status", code |-> code]

Raised(fault) == [kind |-> fault, code |-> 0]

NoResponse == [kind |-> "none", code |-> 0]

Outcomes == {Response(c) : c \in Statuses} \cup {Raised(f) : f \in Faults}

\* requests.get(None) raises MissingSchema, a RequestException, before any I/O.
OutcomesFor(url) == IF url = None THEN {Raised("RequestException")} ELSE Outcomes

\* State of the file the configuration is read from.
FileStates == {"missing", "empty", "invalid", "valid"}

\* --------------------------------------------------- configuration contents
RetriesValues == (-1) .. MaxRetries

EndpointKinds ==
    { [url |-> "http://a"],
      [url |-> "http://b", name |-> "b"],
      [url |-> "http://c", expected_status |-> 404],
      [name |-> "d"] }

RECURSIVE SeqsUpTo(_, _)
SeqsUpTo(S, n) ==
    IF n = 0 THEN {<<>>}
    ELSE LET shorter == SeqsUpTo(S, n - 1)
         IN  shorter \cup {Append(s, x) : s \in {t \in shorter : Len(t) = n - 1}, x \in S}

EndpointLists == SeqsUpTo(EndpointKinds, MaxEndpoints)

MonitorDicts ==
    {EmptyDict, [delay |-> 0]}
    \cup {[retries |-> r] : r \in RetriesValues}
    \cup {[retries |-> r, delay |-> 0] : r \in RetriesValues}

LoggingDict == [file |-> "logs/health_monitor.log", level |-> "INFO"]

ConfigDicts ==
    {[monitor |-> m, endpoints |-> e] : m \in MonitorDicts, e \in EndpointLists}
    \cup {[logging |-> LoggingDict, monitor |-> m, endpoints |-> e] :
             m \in MonitorDicts, e \in EndpointLists}

FallbackConfig ==
    [logging |-> [file |-> "logs/health_monitor.log", level |-> "INFO"],
     monitor |-> [timeout |-> DefaultTimeout, retries |-> DefaultRetries, delay |-> DefaultDelay],
     endpoints |-> <<>>]

\* ------------------------------------------------------------ load_config
\* load_yaml: yaml.safe_load(f) or {}; {} when the file is missing or invalid.
load_yaml(fs, content) == IF fs = "valid" THEN content ELSE EmptyDict

\* load_config_pkg falling back for any path: without the test of the
\* explicit path and without "if path == DEFAULT_CONFIG_PATH".
load_config_pkg_AnyPathFallback(cliArg, fs, content) ==
    LET loaded == load_yaml(fs, content)
    IN  IF ~IsEmpty(loaded) THEN loaded ELSE FallbackConfig

\* The package's load_config.  cli = "explicit" when --config names a path
\* (another path than the default one), "none" otherwise.
load_config_pkg(cliArg, fs, content) ==
    IF cliArg = "explicit" /\ fs = "missing" THEN EmptyDict
    ELSE LET loaded == load_yaml(fs, content)
         IN  IF ~IsEmpty(loaded) THEN loaded
             ELSE IF cliArg = "none" THEN FallbackConfig
             ELSE EmptyDict

\* The script's load_config: {} for a missing or invalid file; an empty file
\* loads as None, which main tests with "not config" exactly as it tests {}.
load_config_root(cliArg, fs, content) ==
    IF fs = "valid" THEN content ELSE EmptyDict

load_config(v, cliArg, fs, content) ==
    IF v = "pkg" THEN load_config_pkg(cliArg, fs, content)
    ELSE load_config_root(cliArg, fs, content)

\* ------------------------------------------------------------- the checker
\* The status an attempt must return to count as a success: check_url
\* compares with the literal 200, check_endpoint with the endpoint's
\* expected_status (200 when the endpoint gives none).
ExpectedStatus(v, ep) ==
    IF v = "pkg" THEN DefaultExpectedStatus
    ELSE Get(ep, "expected_status", DefaultExpectedStatus)

\* Caught without the last clause, "except Exception".
CaughtRequestsOnly(fault) ==
    fault \in {"Timeout", "ConnectionError", "RequestException"}

\* Caught without the first clause, "except requests.exceptions.Timeout",
\* under a requests whose Timeout is no RequestException.
CaughtExceptTimeout(fault) ==
    fault \in {"ConnectionError", "RequestException", "Exception"}

\* The exception classes the attempt's except clauses catch.
Caught(fault) ==
    fault \in {"Timeout", "ConnectionError", "RequestException", "Exception"}

\* "Success: <status>"
SuccessMessage(code) == [pre |-> "", text |-> "Success:", num |-> code, post |-> ""]

\* check_url returns the text with a leading no-entry sign, check_endpoint
\* without: "Failed after <retries> attempts".
FailMessage(v, k) ==
    [pre |-> IF v = "pkg" THEN "NO_ENTRY_SIGN" ELSE "",
     text |-> "Failed after", num |-> k, post |-> "attempts"]

\* SleepsAfter with the guard off by one: a sleep after the last attempt too.
SleepsAfterEveryAttempt(a, k) == a <= k

\* Whether the retry loop sleeps after failed attempt a.
SleepsAfter(a, k) == a < k

\* LoopContinues over range(1, retries + 2): one attempt too many.
LoopContinuesOneMore(a, k) == a <= k + 1

\* LoopContinues as a loop that tests after its body: a first attempt always.
LoopAtLeastOnce(a, k) == a = 1 \/ a <= k

\* The retry loop, "for attempt in range(1, retries + 1)", runs attempt a.
LoopContinues(a, k) == a <= k

\* ---------------------------------------------------------------- log lines
Line(lvl, ev, who, n, m) == [lvl |-> lvl, ev |-> ev, who |-> who, n |-> n, m |-> m]

FailedLine(r) ==
    [lvl |-> "warning", ev |-> "failed_item", who |-> r.name, message |-> r.message]

\* OutcomeLine logging a timeout as a warning.
OutcomeLineTimeoutWarning(o, who, a, k, t) ==
    IF o.kind = "status" THEN Line("warning", "unexpected_status", who, o.code, a)
    ELSE IF o.kind = "Timeout" THEN Line("warning", "timeout", who, t, a)
    ELSE IF o.kind = "ConnectionError" THEN Line("error", "connection_error", who, a, k)
    ELSE IF o.kind = "RequestException" THEN Line("error", "request_failed", who, a, k)
    ELSE Line("error", "unexpected_error", who, a, k)

\* The line an attempt's outcome is logged with.
OutcomeLine(o, who, a, k, t) ==
    IF o.kind = "status" THEN Line("warning", "unexpected_status", who, o.code, a)
    ELSE IF o.kind = "Timeout" THEN Line("error", "timeout", who, t, a)
    ELSE IF o.kind = "ConnectionError" THEN Line("error", "connection_error", who, a, k)
    ELSE IF o.kind = "RequestException" THEN Line("error", "request_failed", who, a, k)
    ELSE Line("error", "unexpected_error", who, a, k)

\* SelectFailed building the list from the back: the failed results reversed.
RECURSIVE SelectFailedReversed(_)
SelectFailedReversed(rs) ==
    IF rs = <<>> THEN <<>>
    ELSE IF ~Head(rs).success THEN SelectFailedReversed(Tail(rs)) \o <<Head(rs)>>
    ELSE SelectFailedReversed(Tail(rs))

\* failed = [r for r in results if not r['success']]
RECURSIVE SelectFailed(_)
SelectFailed(rs) ==
    IF rs = <<>> THEN <<>>
    ELSE IF ~Head(rs).success THEN <<Head(rs)>> \o SelectFailed(Tail(rs))
    ELSE SelectFailed(Tail(rs))

\* CountSuccessful without its filter: every result counted.
CountEveryResult(rs) == Len(rs)

\* successful = sum(1 for r in results if r['success'])
RECURSIVE CountSuccessful(_)
CountSuccessful(rs) ==
    IF rs = <<>> THEN 0
    ELSE (IF Head(rs).success THEN 1 ELSE 0) + CountSuccessful(Tail(rs))

MapFailedLines(rs) == [i \in 1 .. Len(rs) |-> FailedLine(rs[i])]

\* SummaryLines with the test "if successful:" in place of
\* "if successful == total".
SummaryLinesHealthyIfAny(rs) ==
    LET successful == CountSuccessful(rs)
        total == Len(rs)
        failed == SelectFailed(rs)
    IN  <<Line("info", "summary", "", successful, total)>>
        \o (IF successful > 0
            THEN <<Line("info", "all_healthy", "", 0, 0)>>
            ELSE <<Line("warning", "failed_count", "", Len(failed), 0)>>
                 \o MapFailedLines(failed))

\* The summary report of main / run_health_checks.
SummaryLines(rs) ==
    LET successful == CountSuccessful(rs)
        total == Len(rs)
        failed == SelectFailed(rs)
    IN  <<Line("info", "summary", "", successful, total)>>
        \o (IF successful = total
            THEN <<Line("info", "all_healthy", "", 0, 0)>>
            ELSE <<Line("warning", "failed_count", "", Len(failed), 0)>>
                 \o MapFailedLines(failed))

\* -------------------------------------------------------------------- state
VARIABLES
    variant,          \* which of the two programs runs
    cli,              \* --config given ("explicit") or not ("none")
    pc,               \* position of the program
    config,           \* what load_config returned
    fileState,        \* state of the configuration file that was read
    loggingOk,        \* "pending", "ok", or "failed": logging was not initialized
    timeout, retries, delay, endpoints,    \* the settings main reads
    idx,              \* number of loop iterations entered (the current endpoint)
    url, name, expected_status, attempt,   \* locals of the running check
    results,          \* main's list of result dicts
    ret,              \* what the last check returned
    exitCode,         \* exit status of the process, Running before it ends
    out,              \* lines logged (or printed as errors) by the last step
    checkState,       \* "idle", "running", "returned", "skipped", "escaped"
    gets, sleeps,     \* GETs and sleeps of the current check
    lastOp,           \* last blocking call of the current check
    lastResp,         \* outcome of the last GET of the current check
    slept,            \* duration of the last sleep of the current check
    allWrong,         \* every GET of the current check completed with a status
                      \* other than the endpoint's own expected status
    firstMatch,       \* first attempt of the current check whose GET completed
                      \* with the endpoint's own expected status (0: none yet)
    totalGets,        \* GETs of the run
    summaries         \* summary reports emitted

cfgVars == <<variant, cli, config, fileState, loggingOk, timeout, retries, delay, endpoints>>

chkVars == <<url, name, expected_status, attempt>>

obsVars == <<checkState, gets, sleeps, lastOp, lastResp, slept, allWrong, firstMatch>>

runVars == <<idx, results, ret, totalGets, summaries>>

vars == <<cfgVars, chkVars, obsVars, runVars, pc, exitCode, out>>

NoRet == [success |-> FALSE, message |-> [pre |-> "", text |-> "", num |-> 0, post |-> ""]]

Init ==
    /\ variant \in Variants
    /\ cli \in {"none", "explicit"}
    /\ pc = "load"
    /\ config = EmptyDict
    /\ fileState = "unread"
    /\ loggingOk = "pending"
    /\ timeout = 0 /\ retries = 0 /\ delay = 0 /\ endpoints = <<>>
    /\ idx = 0
    /\ url = None /\ name = None /\ expected_status = 0 /\ attempt = 0
    /\ results = <<>>
    /\ ret = NoRet
    /\ exitCode = Running
    /\ out = <<>>
    /\ checkState = "idle"
    /\ gets = 0 /\ sleeps = 0 /\ lastOp = "none" /\ lastResp = NoResponse /\ slept = 0
    /\ allWrong = TRUE /\ firstMatch = 0
    /\ totalGets = 0 /\ summaries = 0

\* The process ends with status code, having logged lines.
Exit(code, lines) ==
    /\ exitCode' = code
    /\ pc' = "exited"
    /\ out' = lines

\* ----------------------------------------------------------- main, start-up
\* main: config = load_config(...); if not config: exit 1.
LoadConfig ==
    /\ pc = "load"
    /\ \E fs \in FileStates, content \in ConfigDicts :
         LET loaded == load_config(variant, cli, fs, content)
         IN  /\ config' = loaded
             /\ fileState' = fs
             /\ IF IsEmpty(loaded)
                THEN Exit(ExitError, <<Line("print", "config_not_loaded", "", 0, 0)>>)
                ELSE /\ pc' = "logging"
                     /\ out' = <<>>
                     /\ exitCode' = exitCode
    /\ UNCHANGED <<variant, cli, loggingOk, timeout, retries, delay, endpoints>>
    /\ UNCHANGED <<chkVars, obsVars, runVars>>

\* Whether a failure to initialize logging ends the run.  The package's
\* setup_logging catches what mkdir / basicConfig raise and only prints it,
\* and main goes on; the script's setup_logging lets it propagate out of main,
\* which is outside main's try.
LoggingFailureIsFatal(v) == v = "root"

\* main: set up logging.  The package reads config['logging']['file'] and
\* ['level'] and exits 1 on a KeyError; the script takes both from the
\* monitor section with defaults.  raises: mkdir or basicConfig raises.
SetupLogging ==
    /\ pc = "logging"
    /\ \E raises \in BOOLEAN :
         IF variant = "pkg" /\ "logging" \notin DOMAIN config
         THEN /\ loggingOk' = "failed"
              /\ Exit(ExitError, <<Line("print", "missing_logging_key", "", 0, 0)>>)
         ELSE IF raises
         THEN /\ loggingOk' = "failed"
              /\ IF LoggingFailureIsFatal(variant)
                 THEN Exit(ExitError, <<>>)
                 ELSE /\ pc' = "settings"
                      /\ out' = <<Line("print", "could_not_setup_logging", "", 0, 0)>>
                      /\ exitCode' = exitCode
         ELSE /\ loggingOk' = "ok"
              /\ pc' = "settings"
              /\ out' = IF variant = "root"
                        THEN <<Line("info", "monitor_starting", "", 0, 0)>>
                        ELSE <<>>
              /\ exitCode' = exitCode
    /\ UNCHANGED <<variant, cli, config, fileState, timeout, retries, delay, endpoints>>
    /\ UNCHANGED <<chkVars, obsVars, runVars>>

\* Exit status of a run whose configuration has no endpoints: the package
\* calls exit(1); run_health_checks returns and the script's main returns 0.
NoEndpointsExit(v) == IF v = "pkg" THEN ExitError ELSE ExitOk

\* NoEndpoints with the test left out.
NoEndpointsUnchecked(eps) == FALSE

\* "if not endpoints": the endpoint list is empty.
NoEndpoints(eps) == eps = <<>>

\* main (package) / run_health_checks (script): read the settings, refuse an
\* empty endpoint list, start the loop with results = [].
ReadSettings ==
    /\ pc = "settings"
    /\ LET monitor_config == Get(config, "monitor", EmptyDict)
           eps == Get(config, "endpoints", <<>>)
       IN  /\ timeout' = Get(monitor_config, "timeout", DefaultTimeout)
           /\ retries' = Get(monitor_config, "retries", DefaultRetries)
           /\ delay' = Get(monitor_config, "delay", DefaultDelay)
           /\ endpoints' = eps
           /\ IF NoEndpoints(eps)
              THEN Exit(NoEndpointsExit(variant),
                        <<Line("error", "no_endpoints", "", 0, 0)>>
                        \o (IF variant = "root"
                            THEN <<Line("info", "completed", "", 0, 0)>>
                            ELSE <<>>))
              ELSE /\ pc' = "next"
                   /\ out' = <<Line("info", "starting_checks", "", Len(eps), 0)>>
                   /\ exitCode' = exitCode
    /\ results' = <<>>
    /\ UNCHANGED <<variant, cli, config, fileState, loggingOk>>
    /\ UNCHANGED <<chkVars, obsVars, idx, ret, totalGets, summaries>>

\* ------------------------------------------------------ the endpoint loop
\* RequiresUrl for a loop that reads endpoint.get("url") in both programs.
RequiresUrlNever(v) == FALSE

\* Whether an entry without url is refused before the check: the package
\* reads endpoint["url"] (a KeyError, caught in the loop); check_endpoint
\* reads endpoint.get('url').
RequiresUrl(v) == v = "pkg"

\* Return appending one dict object that every iteration reuses: each entry
\* of the list is the last result.
ReturnSharedDict(n, u, ok, msg) ==
    /\ ret' = [success |-> ok, message |-> msg]
    /\ results' = [i \in 1 .. Len(results) + 1 |->
                      [name |-> n, url |-> u, success |-> ok, message |-> msg]]
    /\ pc' = "next"
    /\ checkState' = "returned"

\* Return putting the result dict at the front of the list.
ReturnPrepending(n, u, ok, msg) ==
    /\ ret' = [success |-> ok, message |-> msg]
    /\ results' = <<[name |-> n, url |-> u, success |-> ok, message |-> msg]>> \o results
    /\ pc' = "next"
    /\ checkState' = "returned"

\* The check returns (ok, msg) and the loop appends the result dict.
Return(n, u, ok, msg) ==
    /\ ret' = [success |-> ok, message |-> msg]
    /\ results' = Append(results, [name |-> n, url |-> u, success |-> ok, message |-> msg])
    /\ pc' = "next"
    /\ checkState' = "returned"

\* The endpoint's own expected status: expected_status, 200 by default.
OwnExpected(ep) == Get(ep, "expected_status", DefaultExpectedStatus)

\* One iteration of "for endpoint in endpoints" up to the first GET: skip an
\* entry the loop refuses, else enter check_url / check_endpoint, log the
\* starting line and run the retry loop's header.
NextEndpoint ==
    /\ pc = "next"
    /\ idx < Len(endpoints)
    /\ idx' = idx + 1
    /\ gets' = 0 /\ sleeps' = 0 /\ lastOp' = "none" /\ lastResp' = NoResponse
    /\ slept' = 0 /\ allWrong' = TRUE /\ firstMatch' = 0
    /\ LET ep == endpoints[idx + 1]
       IN  IF RequiresUrl(variant) /\ "url" \notin DOMAIN ep
           THEN /\ out' = <<Line("error", "missing_field", "", 0, 0)>>
                /\ pc' = "next"
                /\ checkState' = "skipped"
                /\ UNCHANGED <<chkVars, results, ret>>
           ELSE LET u == Get(ep, "url", None)
                    n == Get(ep, "name", u)
                IN  /\ url' = u
                    /\ name' = n
                    /\ expected_status' = ExpectedStatus(variant, ep)
                    /\ IF ~LoopContinues(1, retries)
                       THEN /\ attempt' = 0
                            /\ out' = <<Line("info", "starting_check", n, 0, 0),
                                        Line("error", "failed_after", n, retries, 0)>>
                            /\ Return(n, u, FALSE, FailMessage(variant, retries))
                       ELSE /\ attempt' = 1
                            /\ out' = <<Line("info", "starting_check", n, 0, 0)>>
                            /\ pc' = "get"
                            /\ checkState' = "running"
                            /\ UNCHANGED <<results, ret>>
    /\ UNCHANGED <<cfgVars, exitCode, totalGets, summaries>>

\* One attempt: requests.get and what the loop body does with its outcome.
DoGet ==
    /\ pc = "get"
    /\ \E o \in OutcomesFor(url) :
         LET own == OwnExpected(endpoints[idx])
         IN  /\ gets' = gets + 1
             /\ totalGets' = totalGets + 1
             /\ lastOp' = "get"
             /\ lastResp' = o
             /\ allWrong' = (allWrong /\ o.kind = "status" /\ o.code # own)
             /\ firstMatch' = IF firstMatch = 0 /\ o.kind = "status" /\ o.code = own
                              THEN attempt ELSE firstMatch
             /\ IF o.kind = "status" /\ o.code = expected_status
                THEN /\ out' = <<Line("info", "success", name, o.code, attempt)>>
                     /\ Return(name, url, TRUE, SuccessMessage(o.code))
                     /\ UNCHANGED <<exitCode, attempt>>
                ELSE IF o.kind # "status" /\ ~Caught(o.kind)
                THEN \* the exception leaves the check: the package's loop catches
                     \* it and goes on, the script's main catches it and returns 1
                     /\ checkState' = "escaped"
                     /\ UNCHANGED <<results, ret, attempt>>
                     /\ IF variant = "pkg"
                        THEN /\ pc' = "next"
                             /\ out' = <<Line("error", "error_processing", name, 0, 0)>>
                             /\ exitCode' = exitCode
                        ELSE Exit(ExitError, <<Line("error", "monitor_failed", "", 0, 0)>>)
                ELSE IF SleepsAfter(attempt, retries)
                THEN /\ out' = <<OutcomeLine(o, name, attempt, retries, timeout),
                                 Line("info", "waiting", "", delay, 0)>>
                     /\ pc' = "sleep"
                     /\ UNCHANGED <<results, ret, checkState, exitCode, attempt>>
                ELSE IF LoopContinues(attempt + 1, retries)
                THEN /\ out' = <<OutcomeLine(o, name, attempt, retries, timeout)>>
                     /\ attempt' = attempt + 1
                     /\ pc' = "get"
                     /\ UNCHANGED <<results, ret, checkState, exitCode>>
                ELSE /\ out' = <<OutcomeLine(o, name, attempt, retries, timeout),
                                 Line("error", "failed_after", name, retries, 0)>>
                     /\ Return(name, url, FALSE, FailMessage(variant, retries))
                     /\ UNCHANGED <<exitCode, attempt>>
    /\ UNCHANGED <<cfgVars, url, name, expected_status, idx, sleeps, slept, summaries>>

\* time.sleep(delay), then the retry loop's header: the next attempt, or the
\* end of the loop and the failure result.
DoSleep ==
    /\ pc = "sleep"
    /\ sleeps' = sleeps + 1
    /\ slept' = delay
    /\ lastOp' = "sleep"
    /\ IF LoopContinues(attempt + 1, retries)
       THEN /\ attempt' = attempt + 1
            /\ pc' = "get"
            /\ out' = <<>>
            /\ UNCHANGED <<results, ret, checkState>>
       ELSE /\ out' = <<Line("error", "failed_after", name, retries, 0)>>
            /\ Return(name, url, FALSE, FailMessage(variant, retries))
            /\ attempt' = attempt
    /\ UNCHANGED <<cfgVars, idx, totalGets, summaries, url, name, expected_status, exitCode>>
    /\ UNCHANGED <<gets, lastResp, allWrong, firstMatch>>

\* CompletedExit reporting failed endpoints in the exit status.
CompletedExitByVerdict(rs) ==
    IF CountSuccessful(rs) = Len(rs) THEN ExitOk ELSE ExitError

\* Exit status of a run that went through the whole list: the script's main
\* returns 0, the package's main returns None; the results play no part.
CompletedExit(rs) == ExitOk

\* After the loop: the summary report, then main returns.
Summarize ==
    /\ pc = "next"
    /\ idx = Len(endpoints)
    /\ summaries' = summaries + 1
    /\ Exit(CompletedExit(results), SummaryLines(results) \o <<Line("info", "completed", "", 0, 0)>>)
    /\ UNCHANGED <<cfgVars, chkVars, obsVars, idx, results, ret, totalGets>>

\* Exit status after a KeyboardInterrupt during the run: the script's main
\* catches it and returns 0; the package has no handler for it, so the
\* interpreter ends with the traceback.
InterruptExit(v) == IF v = "root" THEN ExitOk ELSE ExitInterrupted

\* A KeyboardInterrupt during a GET, during a sleep or between two endpoints.
\* It is no Exception, so no except clause of the check catches it.
Interrupt ==
    /\ pc \in {"next", "get", "sleep"}
    /\ checkState' = IF pc \in {"get", "sleep"} THEN "escaped" ELSE checkState
    /\ Exit(InterruptExit(variant),
            IF variant = "root" THEN <<Line("info", "interrupted", "", 0, 0)>> ELSE <<>>)
    /\ UNCHANGED <<cfgVars, chkVars, runVars>>
    /\ UNCHANGED <<gets, sleeps, lastOp, lastResp, slept, allWrong, firstMatch>>

Next ==
    \/ LoadConfig
    \/ SetupLogging
    \/ ReadSettings
    \/ NextEndpoint
    \/ DoGet
    \/ DoSleep
    \/ Summarize
    \/ Interrupt

Spec == Init /\ [][Next]_vars

\* ================================================================== claims
HasUrl(ep) == "url" \in DOMAIN ep

\* The GET outcome o is a completed call with the endpoint's own expected status.
Matches(o, ep) == o.kind = "status" /\ o.code = OwnExpected(ep)

\* The loaded configuration has no endpoints.
ConfiguredEmpty == ~IsEmpty(config) /\ Get(config, "endpoints", <<>>) = <<>>

Logged(lines, lvl, ev) == \E i \in 1 .. Len(lines) : lines[i].lvl = lvl /\ lines[i].ev = ev

\* C1: with retries = k >= 1, a check whose every GET completed with a status
\* other than the endpoint's expected one has issued exactly k GETs and
\* returned success = false with the message exactly "Failed after k attempts".
\* Stated for the endpoints whose expected status is the default 200, on which
\* check_url and check_endpoint compare with the same status.
C1_FailedAfterK ==
    (checkState = "returned" /\ retries >= 1 /\ allWrong
     /\ OwnExpected(endpoints[idx]) = DefaultExpectedStatus)
        => /\ gets = retries
           /\ ~ret.success
           /\ ret.message = [pre |-> "", text |-> "Failed after", num |-> retries,
                             post |-> "attempts"]

\* C2: once a GET of the check has completed with the expected status, at
\* attempt j, the check has returned (success, "Success: <status>") after
\* exactly j GETs, and that GET is the last blocking call of the check: no GET
\* and no sleep follows it.
C2_SuccessOnAttemptJ ==
    firstMatch # 0
        => /\ checkState = "returned"
           /\ gets = firstMatch
           /\ lastOp = "get"
           /\ ret.success
           /\ ret.message = [pre |-> "", text |-> "Success:", num |-> lastResp.code,
                             post |-> ""]

\* C3: a check reports success exactly when its last GET completed with the
\* endpoint's own expected_status (200 when it gives none), and a GET that
\* completes with that status ends the check.
C3_SuccessIffOwnExpected ==
    /\ (checkState = "returned"
            => (ret.success <=> Matches(lastResp, endpoints[idx])))
    /\ ((gets > 0 /\ lastOp = "get" /\ Matches(lastResp, endpoints[idx]))
            => checkState = "returned")

\* C4: within a check the sleep is entered exactly after an attempt that did
\* not end the check and whose number is below retries; it lasts delay and is
\* followed by a GET; the last blocking call of a check that returned is a
\* GET; a check that failed with retries = k >= 1 made k GETs and k-1 sleeps.
C4_SleepPlacement ==
    /\ (pc = "sleep"
            => /\ lastOp = "get"
               /\ checkState = "running"
               /\ attempt < retries
               /\ ~(lastResp.kind = "status" /\ lastResp.code = expected_status))
    /\ ((lastOp = "get" /\ checkState = "running")
            => (pc = "sleep" /\ attempt < retries))
    /\ (lastOp = "sleep"
            => /\ sleeps = gets
               /\ slept = delay
               /\ (pc = "get" \/ checkState = "escaped"))
    /\ (lastOp = "get" => sleeps = gets - 1)
    /\ ((checkState = "returned" /\ gets > 0) => lastOp = "get")
    /\ ((checkState = "returned" /\ ~ret.success /\ retries >= 1)
            => (gets = retries /\ sleeps = retries - 1))

\* A check with retries = 3 failed after 3 GETs and 2 sleeps.
C4_Witness ==
    /\ checkState = "returned"
    /\ ~ret.success
    /\ retries = 3
    /\ gets = 3
    /\ sleeps = 2
    /\ lastOp = "get"

\* C5: after a GET that raised (timeout, connection error, request error or
\* any other exception) the check is still in its loop, about to sleep before
\* the next attempt, or has returned the failure result "Failed after
\* <retries> attempts"; the exception has not left the check.  (A check is
\* left only by a KeyboardInterrupt, which ends the process.)
C5_NoFaultEscapes ==
    /\ ((lastOp = "get" /\ lastResp.kind \in Faults)
            => \/ (checkState = "running" /\ pc = "sleep" /\ attempt < retries)
               \/ /\ checkState = "returned"
                  /\ ~ret.success
                  /\ ret.message.text = "Failed after"
                  /\ ret.message.num = retries
                  /\ ret.message.post = "attempts"
                  /\ gets = retries
               \/ (checkState = "escaped" /\ pc = "exited"
                   /\ exitCode = InterruptExit(variant)))
    /\ (checkState = "running" => (pc \in {"get", "sleep"} /\ attempt <= retries))
    /\ (checkState = "escaped" => pc = "exited")

\* The last attempt of a check of two or more attempts raised an exception
\* that is no requests exception, and the check returned its failure result.
C5_Witness ==
    /\ checkState = "returned"
    /\ lastResp.kind = "Exception"
    /\ retries >= 2
    /\ gets = retries
    /\ ~ret.success

\* C6: a run whose configuration has an empty endpoint list never issues a
\* GET, never emits a summary and never enters the loop; the step that reads
\* the settings logs the no-endpoints error and ends the run.
C6_EmptyListNoChecks ==
    /\ [](ConfiguredEmpty
            => (totalGets = 0 /\ summaries = 0 /\ pc \notin {"next", "get", "sleep"}))
    /\ [][(pc = "settings" /\ ConfiguredEmpty)
            => (pc' = "exited" /\ Logged(out', "error", "no_endpoints")
                /\ ~Logged(out', "info", "summary"))]_vars

\* A run with an empty endpoint list has ended on the no-endpoints error.
C6_Witness ==
    /\ ConfiguredEmpty
    /\ pc = "exited"
    /\ Logged(out, "error", "no_endpoints")
    /\ totalGets = 0
    /\ summaries = 0

\* C7: when the configuration could not be loaded, has no endpoints, or
\* logging could not be initialized, no endpoint is checked and the process,
\* once ended, has exit code 1.
C7_StartupFaultExitsOne ==
    ((fileState # "unread" /\ IsEmpty(config)) \/ ConfiguredEmpty \/ loggingOk = "failed")
        => /\ totalGets = 0
           /\ checkState = "idle"
           /\ (pc = "exited" => exitCode = ExitError)

\* C8: a run over a non-empty list that got through every endpoint, up to the
\* summary, ends with exit code 0 whatever the verdicts.
C8_CompletedRunExitsZero ==
    (pc = "exited" /\ summaries = 1)
        => (exitCode = ExitOk /\ endpoints # <<>> /\ idx = Len(endpoints))

\* A completed run in which every endpoint failed.
C8_Witness ==
    /\ pc = "exited"
    /\ summaries = 1
    /\ Len(results) = Len(endpoints)
    /\ Len(results) >= 2
    /\ CountSuccessful(results) = 0
    /\ exitCode = ExitOk

\* C9: a KeyboardInterrupt during a GET, during a sleep or between two
\* endpoints ends the process with exit code 0.
C9_InterruptExitsZero == [][Interrupt => exitCode' = ExitOk]_vars

\* C10: an entry without url is skipped: no GET is issued for it, it adds no
\* result, and the entries after it are still checked, so a completed run
\* has one result per entry that has a url.
C10_MissingUrlSkipped ==
    /\ ((idx >= 1 /\ ~HasUrl(endpoints[idx]))
            => (gets = 0 /\ checkState = "skipped"))
    /\ Len(results) <= Cardinality({i \in 1 .. idx : HasUrl(endpoints[i])})
    /\ ((pc = "exited" /\ summaries = 1)
            => Len(results) = Cardinality({i \in 1 .. Len(endpoints) : HasUrl(endpoints[i])}))

\* The summary report is in the lines of the last step.
SummaryEmitted == Logged(out, "info", "summary")

\* Indices of the failed results.
FailedIdx(rs) == {i \in 1 .. Len(rs) : ~rs[i].success}

\* Index of the j-th failed result.
NthFailedIdx(rs, j) ==
    CHOOSE i \in FailedIdx(rs) : Cardinality({h \in FailedIdx(rs) : h <= i}) = j

\* The "<name>: <message>" lines among lines, in their order.
FailedItems(lines) == SelectSeq(lines, LAMBDA l : l.ev = "failed_item")

\* The results of the entries that have a url, in their order.
WellFormedResults == SelectSeq(results, LAMBDA r : r.url # None)

\* The entries that have a url among the first n of the configuration.
WellFormedEndpoints(n) == SelectSeq(SubSeq(endpoints, 1, n), HasUrl)

\* Number of entries whose iteration of the loop is over.
Processed == IF pc \in {"get", "sleep"} \/ checkState = "escaped" THEN idx - 1 ELSE idx

\* The results of the entries that have a url are those of the processed
\* entries that have one, one each, in the order of the configuration.
ResultsFollowConfig ==
    LET rs == WellFormedResults
        es == WellFormedEndpoints(IF Processed < 0 THEN 0 ELSE Processed)
    IN  /\ Len(rs) = Len(es)
        /\ \A i \in 1 .. Len(rs) :
              /\ rs[i].url = es[i].url
              /\ rs[i].name = Get(es[i], "name", es[i].url)

\* C11: the summary line "<successful>/<total> endpoints healthy" carries the
\* number of results with success = true and the number of results, and
\* successful <= total; it is logged once.
C11_SummaryCounts ==
    SummaryEmitted
        => /\ out[1].ev = "summary"
           /\ out[1].n = Cardinality({i \in 1 .. Len(results) : results[i].success})
           /\ out[1].m = Len(results)
           /\ out[1].n <= out[1].m
           /\ Cardinality({i \in 1 .. Len(out) : out[i].ev = "summary"}) = 1

\* A summary "1/2 endpoints healthy".
C11_Witness ==
    /\ SummaryEmitted
    /\ out[1].n = 1
    /\ out[1].m = 2
    /\ results[1].success

\* C12: the lines "<name>: <message>" of the summary are those of the results
\* with success = false, one each and in the order of the results, which is
\* the order of their endpoints in the configuration.
C12_FailedListExact ==
    SummaryEmitted
        => /\ Len(FailedItems(out)) = Cardinality(FailedIdx(results))
           /\ \A j \in 1 .. Len(FailedItems(out)) :
                 /\ FailedItems(out)[j].who = results[NthFailedIdx(results, j)].name
                 /\ FailedItems(out)[j].message = results[NthFailedIdx(results, j)].message
           /\ ResultsFollowConfig

\* One healthy and one failing endpoint: "1/2 endpoints healthy" and the
\* failed list is exactly the failing one.
C12_Witness ==
    /\ SummaryEmitted
    /\ Len(results) = 2
    /\ results[1].success
    /\ ~results[2].success
    /\ out[1].n = 1
    /\ out[1].m = 2
    /\ Len(FailedItems(out)) = 1
    /\ FailedItems(out)[1].who = results[2].name

\* C13: the entries are checked one at a time in the order of the
\* configuration: while a check runs, it is the check of entry idx and the
\* results are those of the entries before it; each entry that has a url gets
\* exactly one result, after a failed verdict too; the results have the order
\* of the configuration; a GET is issued only by the running check.
C13_SequentialInOrder ==
    /\ [](ResultsFollowConfig)
    /\ [](pc \in {"get", "sleep"}
            => (idx \in 1 .. Len(endpoints) /\ url = Get(endpoints[idx], "url", None)))
    /\ []((pc = "exited" /\ summaries = 1)
            => Len(WellFormedResults) = Len(WellFormedEndpoints(Len(endpoints))))
    /\ [][totalGets' # totalGets
            => (pc = "get" /\ idx' = idx /\ totalGets' = totalGets + 1
                /\ gets' = gets + 1)]_vars
    /\ [][idx' # idx => (idx' = idx + 1 /\ pc = "next")]_vars

\* A completed run of two entries with a url: the first failed, the second
\* was checked all the same and succeeded.
C13_Witness ==
    /\ pc = "exited"
    /\ summaries = 1
    /\ Len(results) = 2
    /\ ~results[1].success
    /\ results[2].success
    /\ results[1].url # results[2].url
    /\ results[1].url # None

\* Number of results with success = true.
Successes == Cardinality({i \in 1 .. Len(results) : results[i].success})

\* C14: the summary is logged by the step that follows the last entry's
\* verdict (or skip) and ends the run.  Its second line is the all-healthy
\* line exactly when successful = total; otherwise it is the warning line with
\* the count total - successful, followed by that many "<name>: <message>"
\* lines and no other such line.
C14_SummaryShape ==
    /\ (summaries # 0 => (summaries = 1 /\ pc = "exited" /\ SummaryEmitted))
    /\ (SummaryEmitted
           => /\ pc = "exited"
              /\ summaries = 1
              /\ idx = Len(endpoints)
              /\ checkState \in {"returned", "skipped"}
              /\ (Logged(out, "info", "all_healthy") <=> Successes = Len(results))
              /\ (Successes = Len(results)
                     => /\ out[2].ev = "all_healthy"
                        /\ ~Logged(out, "warning", "failed_count")
                        /\ Len(FailedItems(out)) = 0)
              /\ (Successes # Len(results)
                     => /\ out[2].ev = "failed_count"
                        /\ out[2].lvl = "warning"
                        /\ out[2].n = Len(results) - Successes
                        /\ Len(FailedItems(out)) = Len(results) - Successes
                        /\ \A j \in 3 .. 2 + Len(results) - Successes :
                              /\ out[j].ev = "failed_item"
                              /\ out[j].lvl = "warning"
                              /\ \E i \in FailedIdx(results) :
                                    /\ out[j].who = results[i].name
                                    /\ out[j].message = results[i].message))

\* A summary of two results, one of them failed: the warning line with the
\* count 1 and one line for the failed endpoint.
C14_Witness ==
    /\ SummaryEmitted
    /\ Len(results) = 2
    /\ Successes = 1
    /\ out[2].ev = "failed_count"
    /\ out[2].n = 1
    /\ out[3].ev = "failed_item"

\* C15: in the package, load_config with an explicit path that does not exist
\* returns {} and the run ends with exit code 1; load_config with no path,
\* the default file missing or empty, returns the fallback (timeout 5,
\* retries 3, delay 2, no endpoints), and the run on it issues no GET, never
\* enters the loop and ends on the no-endpoints error with exit code 1.
C15_LoadConfigFallback ==
    /\ ((variant = "pkg" /\ cli = "explicit" /\ fileState = "missing")
           => /\ IsEmpty(config)
              /\ pc = "exited"
              /\ exitCode = ExitError
              /\ totalGets = 0)
    /\ ((variant = "pkg" /\ cli = "none" /\ fileState \in {"missing", "empty"})
           => /\ DOMAIN config = {"logging", "monitor", "endpoints"}
              /\ config.monitor.timeout = 5
              /\ config.monitor.retries = 3
              /\ config.monitor.delay = 2
              /\ config.endpoints = <<>>
              /\ totalGets = 0
              /\ summaries = 0
              /\ pc \notin {"next", "get", "sleep"}
              /\ (pc = "exited"
                     => /\ exitCode = ExitError
                        /\ Logged(out, "error", "no_endpoints")
                        /\ timeout = 5 /\ retries = 3 /\ delay = 2))

\* The package, started without --config where no default file exists, has
\* ended on the no-endpoints error.
C15_Witness ==
    /\ variant = "pkg"
    /\ cli = "none"
    /\ fileState = "missing"
    /\ pc = "exited"
    /\ exitCode = ExitError
    /\ Logged(out, "error", "no_endpoints")

\* The last GET of the check is an attempt the check counted as failed.
LastAttemptFailed ==
    /\ lastOp = "get"
    /\ ~(lastResp.kind = "status" /\ lastResp.code = expected_status)

\* The check was left by a KeyboardInterrupt, which ended the process.
Interrupted ==
    checkState = "escaped" /\ pc = "exited" /\ exitCode = InterruptExit(variant)

\* C16: what follows a failed attempt is given by the attempt's number and
\* retries alone, whether the attempt failed on a wrong status or on a
\* transport fault: one GET per attempt, one sleep per earlier attempt, a
\* sleep next when attempt < retries, and otherwise the failure result with
\* its one message after retries GETs and retries - 1 sleeps.
C16_VerdictIgnoresFailureKind ==
    /\ (lastOp = "get" => (gets = attempt /\ sleeps = attempt - 1))
    /\ ((LastAttemptFailed /\ attempt < retries)
           => ((checkState = "running" /\ pc = "sleep") \/ Interrupted))
    /\ ((LastAttemptFailed /\ attempt >= retries)
           => /\ checkState = "returned"
              /\ ~ret.success
              /\ ret.message = [pre |-> IF variant = "pkg" THEN "NO_ENTRY_SIGN" ELSE "",
                                text |-> "Failed after", num |-> retries,
                                post |-> "attempts"]
              /\ gets = retries
              /\ sleeps = retries - 1)

\* A check of two attempts failed on a connection error after an attempt
\* that did not end on a wrong status either.
C16_Witness ==
    /\ checkState = "returned"
    /\ ~ret.success
    /\ lastResp.kind = "ConnectionError"
    /\ retries = 2
    /\ gets = 2
    /\ sleeps = 1

OutcomeEvents ==
    {"success", "unexpected_status", "timeout", "connection_error",
     "request_failed", "unexpected_error"}

\* Number of lines among lines whose event is in evs.
CountEv(lines, evs) == Cardinality({i \in 1 .. Len(lines) : lines[i].ev \in evs})

\* C17: the step that enters a check logs the starting line, once and before
\* any GET, and no other step logs one; each attempt logs exactly one outcome
\* line, first, at info for a success, warning for a wrong status, error for
\* a timeout, a connection error or another fault; the terminal failure line
\* is logged, once, at error level and after the outcome line, exactly by the
\* step in which the check returns its failure; steps that are no attempt log
\* no outcome line.
C17_LogLines ==
    [][ /\ ((idx' = idx + 1 /\ checkState' # "skipped")
               => /\ out'[1].ev = "starting_check"
                  /\ out'[1].lvl = "info"
                  /\ CountEv(out', {"starting_check"}) = 1
                  /\ CountEv(out', OutcomeEvents) = 0
                  /\ gets' = 0
                  /\ CountEv(out', {"failed_after"})
                         = (IF checkState' = "returned" THEN 1 ELSE 0))
        /\ ((idx' = idx \/ checkState' = "skipped")
               => CountEv(out', {"starting_check"}) = 0)
        /\ (gets' = gets + 1
               => /\ CountEv(out', OutcomeEvents) = 1
                  /\ out'[1].ev \in OutcomeEvents
                  /\ out'[1].lvl =
                        (IF lastResp'.kind = "status" /\ lastResp'.code = expected_status
                         THEN "info"
                         ELSE IF lastResp'.kind = "status" THEN "warning"
                         ELSE "error")
                  /\ (out'[1].ev = "success"
                         <=> (checkState' = "returned" /\ ret'.success))
                  /\ CountEv(out', {"failed_after"})
                         = (IF checkState' = "returned" /\ ~ret'.success THEN 1 ELSE 0)
                  /\ (CountEv(out', {"failed_after"}) = 1
                         => (out'[2].ev = "failed_after" /\ out'[2].lvl = "error")))
        /\ ((idx' = idx /\ gets' = gets)
               => (CountEv(out', OutcomeEvents) = 0
                   /\ CountEv(out', {"failed_after"}) = 0)) ]_vars

\* The last attempt of a check timed out: the timeout line at error level,
\* then the terminal failure line.
C17_Witness ==
    /\ checkState = "returned"
    /\ gets >= 2
    /\ Len(out) = 2
    /\ out[1].ev = "timeout"
    /\ out[1].lvl = "error"
    /\ out[2].ev = "failed_after"
    /\ out[2].lvl = "error"

\* The status the running program compares with, from the entry alone.
ComparedStatus(ep) ==
    IF variant = "pkg" THEN 200 ELSE Get(ep, "expected_status", 200)

\* C18: the locals of a running check are those of its own entry and its
\* attempt counter counts its own GETs; what a check returns is given by its
\* entry, retries and its own GETs; the result appended is that verdict under
\* the entry's name and url; and no step changes a result that is already in
\* the list.
C18_ChecksIndependent ==
    /\ [](pc \in {"get", "sleep"}
            => /\ url = Get(endpoints[idx], "url", None)
               /\ name = Get(endpoints[idx], "name", Get(endpoints[idx], "url", None))
               /\ expected_status = ComparedStatus(endpoints[idx])
               /\ attempt = gets + (IF pc = "get" THEN 1 ELSE 0)
               /\ sleeps = attempt - 1)
    /\ [](checkState = "returned"
            => /\ results[Len(results)] =
                      [name |-> Get(endpoints[idx], "name", Get(endpoints[idx], "url", None)),
                       url |-> Get(endpoints[idx], "url", None),
                       success |-> ret.success,
                       message |-> ret.message]
               /\ (ret.success
                      <=> (lastResp.kind = "status"
                           /\ lastResp.code = ComparedStatus(endpoints[idx])))
               /\ (ret.success
                      => (ret.message.text = "Success:"
                          /\ ret.message.num = lastResp.code
                          /\ gets \in 1 .. retries))
               /\ (~ret.success
                      => (ret.message.text = "Failed after"
                          /\ ret.message.num = retries
                          /\ gets = (IF retries < 0 THEN 0 ELSE retries))))
    /\ [][pc # "settings"
            => (Len(results') >= Len(results)
                /\ SubSeq(results', 1, Len(results)) = results)]_vars

\* The second of two checks returned another verdict than the first.
C18_Witness ==
    /\ checkState = "returned"
    /\ Len(results) = 2
    /\ results[1].success
    /\ ~results[2].success
    /\ idx = 2
    /\ gets = retries

\* retries, or 0 when it is negative: the attempts a check can make.
MaxAttempts == IF retries < 0 THEN 0 ELSE retries

\* The larger of the retries values of the configurations.
LargestRetries == IF MaxRetries > DefaultRetries THEN MaxRetries ELSE DefaultRetries

\* A bound on the steps a run has left after the settings are read.
StepsAfterSettings == MaxEndpoints * (2 * LargestRetries + 1) + 1

\* A bound on the steps the run has left.
StepsLeft ==
    IF pc = "load" THEN StepsAfterSettings + 3
    ELSE IF pc = "logging" THEN StepsAfterSettings + 2
    ELSE IF pc = "settings" THEN StepsAfterSettings + 1
    ELSE IF pc = "exited" THEN 0
    ELSE (Len(endpoints) - idx) * (2 * MaxAttempts + 1) + 1
         + (IF pc = "get" THEN 2 * (MaxAttempts - attempt) + 1
            ELSE IF pc = "sleep" THEN 2 * (MaxAttempts - attempt)
            ELSE 0)

\* C19: a check makes at most retries GETs and at most retries - 1 sleeps,
\* and a run at most len(endpoints) * retries GETs; a run that has not ended
\* can take a step, and every step lowers a bound on the steps left, so every
\* check and every run ends.
C19_BoundedAndTerminating ==
    /\ [](gets <= MaxAttempts)
    /\ [](sleeps <= (IF MaxAttempts = 0 THEN 0 ELSE MaxAttempts - 1))
    /\ [](totalGets <= Len(endpoints) * MaxAttempts)
    /\ [](StepsLeft >= 0)
    /\ [](pc # "exited" => ENABLED Next)
    /\ [][StepsLeft' < StepsLeft]_vars

\* A completed run of two entries in which every check used its three
\* attempts.
C19_Witness ==
    /\ pc = "exited"
    /\ summaries = 1
    /\ Len(endpoints) = 2
    /\ retries = 3
    /\ totalGets = 6

\* C20: a check that returned success issued at least one GET and its last
\* GET completed with the status the check compares with; with retries <= 0
\* a check issues no GET and no sleep and returns success = false with
\* "Failed after <retries> attempts".
C20_SuccessNeedsGet ==
    /\ ((checkState = "returned" /\ ret.success)
           => /\ gets >= 1
              /\ lastOp = "get"
              /\ lastResp.kind = "status"
              /\ lastResp.code = expected_status)
    /\ ((checkState = "returned" /\ retries <= 0)
           => /\ gets = 0
              /\ sleeps = 0
              /\ ~ret.success
              /\ ret.message.text = "Failed after"
              /\ ret.message.num = retries
              /\ ret.message.post = "attempts")
    /\ ((retries <= 0 /\ pc # "exited") => (pc \notin {"get", "sleep"} /\ totalGets = 0))

\* A check under retries = -1 returned "Failed after -1 attempts" with no GET.
C20_Witness ==
    /\ checkState = "returned"
    /\ retries = -1
    /\ gets = 0
    /\ sleeps = 0
    /\ ~ret.success
    /\ ret.message.num = -1

\* The configured list is not empty and no entry of it has a url.
AllEntriesLackUrl ==
    /\ Len(endpoints) > 0
    /\ \A i \in 1 .. Len(endpoints) : ~HasUrl(endpoints[i])

\* C21: in the package, when the list is not empty and every entry lacks
\* url, every entry is skipped and no GET is issued; the summary reads 0/0
\* and, as successful = total, its second line is the all-healthy line.
C21_AllSkippedReportsHealthy ==
    (variant = "pkg" /\ AllEntriesLackUrl)
        => /\ totalGets = 0
           /\ gets = 0
           /\ pc \notin {"get", "sleep"}
           /\ results = << >>
           /\ ((idx >= 1 /\ pc = "next") => checkState = "skipped")
           /\ (SummaryEmitted
                  => /\ idx = Len(endpoints)
                     /\ checkState = "skipped"
                     /\ out[1] = Line("info", "summary", "", 0, 0)
                     /\ out[2] = Line("info", "all_healthy", "", 0, 0)
                     /\ ~Logged(out, "warning", "failed_count"))

\* The package reported two entries without url as all healthy, having
\* checked neither.
C21_Witness ==
    /\ variant = "pkg"
    /\ AllEntriesLackUrl
    /\ Len(endpoints) = 2
    /\ SummaryEmitted
    /\ out[1].n = 0
    /\ out[1].m = 0
    /\ out[2].ev = "all_healthy"
    /\ totalGets = 0

====
